---- MODULE Spec2Model ----
(***************************************************************************)
(* A model of the backend service in src/backend/server.py and             *)
(* src/backend/emails.py: the contact-form endpoint with its optional      *)
(* document store and background e-mail, and the voice-assistant webhook   *)
(* (payload normalizer, required-field check, forced recipient, response   *)
(* envelope).                                                              *)
(***************************************************************************)
EXTENDS Naturals, Sequences, FiniteSets, TLC

VARIABLES
    env,            \* os.environ: name -> None (unset) or a string
    body,           \* the webhook request body (a JSON value, or unparseable bytes)
    wraps,          \* how many wrappers the caller put around the body
    vpc,            \* webhook request: "build" | "echoed" | "done"
    tool_call_id,   \* the handler's local tool_call_id
    payload,        \* the handler's local payload (the extracted arguments)
    calls,          \* invocations of _extract_toolcall_and_args for this request
    sendInvoked,    \* invocations of send_council_request_email for this request
    sendResult,     \* "none" | "returned" | "EmailDeliveryError" | "Exception"
    providerCalls,  \* e-mails handed to the provider (send_transac_email)
    providerOutcome,\* what the provider does with a call, chosen by the outside world
    resp,           \* the JSON response of the webhook request
    phase,          \* server lifecycle: "starting" | "serving" | "stopped"
    mongo_client,   \* module global mongo_client
    mongo_db,       \* module global mongo_db
    pingOk,         \* whether the startup ping succeeded
    store,          \* documents held by the contact_submissions collection
    nextId,         \* source of fresh submission ids (uuid4)
    reqs            \* the contact requests, by request number

vapiVars == <<body, wraps, vpc, tool_call_id, payload, calls, sendInvoked,
              sendResult, providerCalls, providerOutcome, resp>>
contactVars == <<phase, mongo_client, mongo_db, pingOk, store, nextId, reqs>>
vars == <<env, vapiVars, contactVars>>

(***************************************************************************)
(* Bounds of the model.                                                    *)
(***************************************************************************)
MaxWraps == 2
MaxMissing == 2
NumRequests == 2

(***************************************************************************)
(* JSON values as Python sees them after json.loads.  A Python dict keeps  *)
(* insertion order: a sequence of key/value entries with distinct keys.    *)
(* Strings come in three kinds, told apart by what _try_json_loads does    *)
(* with them: plain text, the JSON text of a dict or list, and text in     *)
(* braces that json.loads rejects.                                         *)
(***************************************************************************)
None == [t |-> "null"]
Str(s) == [t |-> "str", s |-> s]
JsonStr(v) == [t |-> "jstr", d |-> v]
BadJsonStr == [t |-> "badjstr"]
Dict(kv) == [t |-> "dict", kv |-> kv]
List(xs) == [t |-> "list", xs |-> xs]
KV(k, v) == [k |-> k, v |-> v]
Unparseable == [t |-> "unparseable"]

IsDict(v) == v.t = "dict"
IsList(v) == v.t = "list"
IsStr(v) == v.t \in {"str", "jstr", "badjstr"}

\* Python truthiness of a JSON value.
Truthy(v) ==
    CASE v.t = "null" -> FALSE
      [] v.t = "str" -> v.s # ""
      [] v.t = "dict" -> Len(v.kv) > 0
      [] v.t = "list" -> Len(v.xs) > 0
      [] OTHER -> TRUE

\* Python's `a or b`.
Or(a, b) == IF Truthy(a) THEN a ELSE b

\* `k in d`
HasKey(d, k) == \E i \in 1..Len(d.kv) : d.kv[i].k = k

\* `d.get(k)`
Get(d, k) ==
    IF HasKey(d, k)
    THEN d.kv[CHOOSE i \in 1..Len(d.kv) : d.kv[i].k = k].v
    ELSE None

\* `d[k] = v`: replaces in place, or appends a new key.
SetKey(d, k, v) ==
    IF HasKey(d, k)
    THEN Dict([i \in 1..Len(d.kv) |-> IF d.kv[i].k = k THEN KV(k, v) ELSE d.kv[i]])
    ELSE Dict(Append(d.kv, KV(k, v)))

\* `d.setdefault(k, v)`
SetDefault(d, k, v) == IF HasKey(d, k) THEN d ELSE SetKey(d, k, v)

\* `del d[k]` (when present)
DelKey(d, k) == Dict(SelectSeq(d.kv, LAMBDA e : e.k # k))

\* server.py:190-191: after strip(), the string starts and ends with braces or
\* with brackets.
InBraces(val) == val.t \in {"jstr", "badjstr"}

\* json.loads(s): the decoded value, or a failure.
JsonLoads(val) ==
    IF val.t = "jstr" THEN [ok |-> TRUE, v |-> val.d] ELSE [ok |-> FALSE, v |-> val]

\* Faulty variant: JSON-encoded strings are never decoded.
_try_json_loads_skip(val) == val

\* server.py:188-196: only a string in braces or brackets is handed to
\* json.loads; a parse failure gives the string back.
_try_json_loads(val) ==
    IF IsStr(val) /\ InBraces(val)
    THEN IF JsonLoads(val).ok THEN JsonLoads(val).v ELSE val
    ELSE val

(***************************************************************************)
(* The payload normalizer.                                                 *)
(***************************************************************************)
DirectArgKeys ==
    <<"to", "subject", "request_type", "resident_name", "resident_phone",
      "address", "details">>

Required ==
    <<"subject", "request_type", "resident_name", "resident_phone", "address",
      "details">>

\* server.py:214  any(k in raw for k in (...))
HasDirectArgs(raw) ==
    \E i \in 1..Len(DirectArgKeys) : HasKey(raw, DirectArgKeys[i])

\* server.py:211
DirectToolCallId(raw) == Or(Get(raw, "toolCallId"), Get(raw, "tool_call_id"))

\* server.py:218
ToolCallList(raw) ==
    Or(Or(Get(raw, "toolCalls"), Get(raw, "tool_calls")), Get(raw, "toolCallList"))

\* The result of a branch that may return: hit says whether it returned.
Ret(id, args) == [hit |-> TRUE, id |-> id, args |-> args]
NoRet(id) == [hit |-> FALSE, id |-> id, args |-> Dict(<< >>)]

\* Faulty variant: the entry's own arguments are tried before function.arguments.
ToolCallsBranch_entryArgsFirst(raw, tid0) ==
    LET tc == ToolCallList(raw) IN
    IF IsList(tc) /\ Len(tc.xs) > 0 /\ IsDict(tc.xs[1])
    THEN LET first == tc.xs[1]
             tid == Or(Or(tid0, Get(first, "id")), Get(first, "toolCallId"))
             f == Get(first, "function")
             a == _try_json_loads(Get(first, "arguments"))
             fa == IF IsDict(f) THEN _try_json_loads(Get(f, "arguments")) ELSE None
         IN  IF HasKey(first, "arguments") /\ IsDict(a) THEN Ret(tid, a)
             ELSE IF IsDict(f) /\ HasKey(f, "arguments") /\ IsDict(fa) THEN Ret(tid, fa)
             ELSE NoRet(tid)
    ELSE NoRet(tid0)

\* server.py:218-233: the first entry of the tool-call list, function.arguments
\* before the entry's own arguments.
ToolCallsBranch(raw, tid0) ==
    LET tc == ToolCallList(raw) IN
    IF IsList(tc) /\ Len(tc.xs) > 0 /\ IsDict(tc.xs[1])
    THEN LET first == tc.xs[1]
             tid == Or(Or(tid0, Get(first, "id")), Get(first, "toolCallId"))
             f == Get(first, "function")
             fn == IF IsDict(f) THEN f ELSE None
             fa == IF IsDict(fn) THEN _try_json_loads(Get(fn, "arguments")) ELSE None
             a == _try_json_loads(Get(first, "arguments"))
         IN  IF Truthy(fn) /\ HasKey(fn, "arguments") /\ IsDict(fa) THEN Ret(tid, fa)
             ELSE IF HasKey(first, "arguments") /\ IsDict(a) THEN Ret(tid, a)
             ELSE NoRet(tid)
    ELSE NoRet(tid0)

\* server.py:236-242: the dict's own function wrapper.
FunctionBranch(raw, tid1) ==
    IF HasKey(raw, "function") /\ IsDict(Get(raw, "function"))
    THEN LET fn == Get(raw, "function")
             tid == Or(tid1, Get(raw, "id"))
             a == _try_json_loads(Get(fn, "arguments"))
         IN  IF HasKey(fn, "arguments") /\ IsDict(a) THEN Ret(tid, a) ELSE NoRet(tid)
    ELSE NoRet(tid1)

NotFound == [id |-> None, args |-> Dict(<< >>), n |-> 1]

RECURSIVE _extract_toolcall_and_args(_)
RECURSIVE ExtractFirst(_, _, _, _)

\* server.py:245-248 and 250-254: the loop over a dict's values or a list's
\* items, from position i on; n counts the invocations made so far at this
\* level; outer is the enclosing dict's tool_call_id (None for a list).
ExtractFirst(items, i, outer, n) ==
    IF i > Len(items)
    THEN [id |-> None, args |-> Dict(<< >>), n |-> n]
    ELSE LET r == _extract_toolcall_and_args(items[i]) IN
         IF Truthy(r.args)
         THEN [id |-> Or(r.id, outer), args |-> r.args, n |-> n + r.n]
         ELSE ExtractFirst(items, i + 1, outer, n + r.n)

\* server.py:199-256.  Returns [id, args, n]: the tool call id, the arguments
\* dict, and the number of invocations the call made (itself included).
_extract_toolcall_and_args(raw0) ==
    LET raw == _try_json_loads(raw0) IN
    IF IsDict(raw)
    THEN LET tid0 == DirectToolCallId(raw) IN
         IF HasDirectArgs(raw)
         THEN [id |-> tid0, args |-> raw, n |-> 1]
         ELSE LET b1 == ToolCallsBranch(raw, tid0) IN
              IF b1.hit
              THEN [id |-> b1.id, args |-> b1.args, n |-> 1]
              ELSE LET b2 == FunctionBranch(raw, b1.id) IN
                   IF b2.hit
                   THEN [id |-> b2.id, args |-> b2.args, n |-> 1]
                   ELSE ExtractFirst([i \in 1..Len(raw.kv) |-> raw.kv[i].v], 1, b2.id, 1)
    ELSE IF IsList(raw)
    THEN ExtractFirst(raw.xs, 1, None, 1)
    ELSE NotFound

(***************************************************************************)
(* The response envelope and the e-mail of the structured-request flow.    *)
(***************************************************************************)
\* A message built from a fixed text and the parts formatted into it.
Msg(text, parts) == [text |-> text, parts |-> parts]

NoResponse == [pending |-> TRUE]

\* server.py:259-263
_vapi_success(tid, msg) ==
    [results |-> << [toolCallId |-> Or(tid, Str("unknown")), result |-> msg] >>]

\* Faulty variant: a missing tool call id is not replaced by "unknown".
_vapi_error_bare(tid, msg) == [results |-> << [toolCallId |-> tid, error |-> msg] >>]

\* server.py:266-270
_vapi_error(tid, msg) ==
    [results |-> << [toolCallId |-> Or(tid, Str("unknown")), error |-> msg] >>]

\* server.py:295-296
MissingFields(p) == SelectSeq(Required, LAMBDA k : ~Truthy(Get(p, k)))

REFERENCE_ID == Str("YRC-123")

\* server.py:301-311: defaults, then the static reference.
WithDefaults(p, e) ==
    LET p1 == SetDefault(p, "to", e.RECIPIENT_EMAIL)
        p2 == SetDefault(p1, "urgency", Str("Normal"))
        p3 == SetDefault(p2, "preferred_contact_method", None)
        p4 == SetDefault(p3, "resident_email", None)
        p5 == SetDefault(p4, "extra_metadata", Dict(<< >>))
    IN  SetKey(p5, "reference_id", REFERENCE_ID)

\* Faulty variant: the payload's "to" is trusted when present.
ForcedRecipient_fromPayload(p, e) ==
    Or(Get(p, "to"), Or(e.COUNCIL_INBOX_EMAIL, e.RECIPIENT_EMAIL))

\* emails.py:57-60: the recipient comes from the environment alone.
ForcedRecipient(p, e) == Or(e.COUNCIL_INBOX_EMAIL, e.RECIPIENT_EMAIL)

\* Faulty variant: no configuration check before the provider call.
ConfigError_none(p, e) == << >>

\* emails.py:62-67: the first configuration check that fails, as the text of
\* the EmailDeliveryError it raises; << >> when all pass.
ConfigError(p, e) ==
    IF ~Truthy(e.SENDER_EMAIL)
    THEN <<"Missing SENDER_EMAIL environment variable.">>
    ELSE IF ~Truthy(ForcedRecipient(p, e))
    THEN <<"Missing COUNCIL_INBOX_EMAIL / RECIPIENT_EMAIL environment variable.">>
    ELSE IF ~Truthy(e.BREVO_API_KEY)
    THEN <<"Missing BREVO_API_KEY environment variable.">>
    ELSE << >>

\* `p.get(k, default)`
GetOr(p, k, default) == IF HasKey(p, k) THEN Get(p, k) ELSE default

\* emails.py:69-93: the SendSmtpEmail object.
CouncilEmail(p, e) ==
    [sender |-> e.SENDER_EMAIL,
     to |-> << ForcedRecipient(p, e) >>,
     subject |-> Or(Get(p, "subject"), Str("New Council Request")),
     html |-> [request_type |-> GetOr(p, "request_type", Str("")),
               resident_name |-> GetOr(p, "resident_name", Str("")),
               resident_phone |-> GetOr(p, "resident_phone", Str("")),
               address |-> GetOr(p, "address", Str("")),
               urgency |-> GetOr(p, "urgency", Str("Normal")),
               details |-> GetOr(p, "details", Str("")),
               ignored_to |-> GetOr(p, "to", Str(""))]]

ProviderOutcomes == {"ok", "ApiException", "OtherException"}

\* emails.py:43-99.  outcome is what the provider does if it is called.
send_council_request_email(p, e, outcome) ==
    LET err == ConfigError(p, e) IN
    IF err # << >>
    THEN [result |-> "EmailDeliveryError", text |-> err, sent |-> << >>]
    ELSE LET mail == CouncilEmail(p, e) IN
         CASE outcome = "ok" ->
                [result |-> "returned", text |-> << >>, sent |-> <<mail>>]
           [] outcome = "ApiException" ->
                [result |-> "EmailDeliveryError", text |-> <<"Brevo API error">>,
                 sent |-> <<mail>>]
           [] OTHER ->
                [result |-> "Exception", text |-> << >>, sent |-> <<mail>>]

Idle ==
    [tool_call_id |-> None, payload |-> Dict(<< >>), calls |-> 0, sendInvoked |-> 0,
     sendResult |-> "none", providerCalls |-> << >>, resp |-> NoResponse]

\* Faulty variant: the e-mail is sent before the required fields are checked.
SendStep_beforeCheck(x, e, outcome) ==
    LET p == WithDefaults(x.args, e)
        s == send_council_request_email(p, e, outcome)
    IN  [tool_call_id |-> x.id, payload |-> p, calls |-> x.n, sendInvoked |-> 1,
         sendResult |-> s.result, providerCalls |-> s.sent,
         resp |-> IF MissingFields(x.args) # << >>
                  THEN _vapi_error(x.id, Msg("Missing required fields: ",
                                             MissingFields(x.args)))
                  ELSE _vapi_success(x.id, Msg("Request lodged successfully. Reference: ",
                                               <<REFERENCE_ID.s>>))]

\* server.py:295-323: the handler from the required-field check on, given the
\* normalizer's result x.
SendStep(x, e, outcome) ==
    LET missing == MissingFields(x.args) IN
    IF missing # << >>
    THEN [Idle EXCEPT !.tool_call_id = x.id, !.payload = x.args, !.calls = x.n,
                      !.resp = _vapi_error(x.id, Msg("Missing required fields: ", missing))]
    ELSE LET p == WithDefaults(x.args, e)
             s == send_council_request_email(p, e, outcome)
         IN  [tool_call_id |-> x.id, payload |-> p, calls |-> x.n, sendInvoked |-> 1,
              sendResult |-> s.result, providerCalls |-> s.sent,
              resp |-> CASE s.result = "EmailDeliveryError" ->
                              _vapi_error(x.id, Msg("Email delivery failed: ", s.text))
                         [] s.result = "Exception" ->
                              _vapi_error(x.id,
                                  Msg("Internal server error while sending email", << >>))
                         [] OTHER ->
                              _vapi_success(x.id,
                                  Msg("Request lodged successfully. Reference: ",
                                      <<REFERENCE_ID.s>>))]

\* server.py:285-323: the whole handler on body b.
Handle(b, e, outcome) ==
    IF b = Unparseable
    THEN [Idle EXCEPT !.resp = _vapi_error(None, Msg("Invalid JSON body", << >>))]
    ELSE SendStep(_extract_toolcall_and_args(b), e, outcome)

(***************************************************************************)
(* Request bodies.  The caller (the voice-assistant platform) starts from  *)
(* an arguments value and wraps it in the shapes the normalizer's          *)
(* docstring lists (server.py:200-205).                                    *)
(***************************************************************************)
FieldValue ==
    [subject |-> "Pothole", request_type |-> "roads", resident_name |-> "Sam",
     resident_phone |-> "0400", address |-> "1 High St", details |-> "deep hole"]

Attacker == Str("attacker@evil.test")

\* The arguments dict in which the fields of `missing` are absent (mode
\* "absent") or empty strings (mode "empty"), with or without a "to".
ArgsDict(missing, mode, withTo) ==
    LET kept == SelectSeq(Required, LAMBDA k : mode = "empty" \/ k \notin missing)
        kv == [i \in 1..Len(kept) |->
                 KV(kept[i], IF kept[i] \in missing THEN Str("")
                             ELSE Str(FieldValue[kept[i]]))]
    IN  Dict(IF withTo THEN <<KV("to", Attacker)>> \o kv ELSE kv)

RequiredSet == {Required[i] : i \in 1..Len(Required)}

FullArgs == ArgsDict({}, "absent", FALSE)

ArgsLeaves ==
    {ArgsDict(m, mode, t) :
        m \in {x \in SUBSET RequiredSet : Cardinality(x) <= MaxMissing},
        mode \in {"absent", "empty"}, t \in BOOLEAN}

\* Bodies that hold no arguments at all.
EmptyLeaves == {Dict(<< >>), Str("hello"), BadJsonStr, Unparseable}

\* The leaves of the normalizer's own exploration: full arguments, partial
\* arguments, a dict with none of the seven keys, and the empty ones.
EchoLeaves ==
    {FullArgs, ArgsDict({}, "absent", TRUE),
     Dict(<<KV("details", Str("deep hole"))>>),
     Dict(<<KV("urgency", Str("High"))>>),
     Dict(<< >>), Str("hello"), BadJsonStr}

CallId == Str("call_1")
DecoyId == Str("call_7")
DecoyArgs == Dict(<<KV("details", Str("decoy"))>>)

ToolCallEntry(idKey, id, slot, args) ==
    LET head == IF idKey = "none" THEN << >> ELSE <<KV(idKey, id)>> IN
    IF slot = "function"
    THEN Dict(head \o <<KV("function",
                           Dict(<<KV("name", Str("send_email")), KV("arguments", args)>>))>>)
    ELSE Dict(head \o <<KV("arguments", args)>>)

PlainWrappers(b) ==
    {Dict(<<KV("message", b)>>), List(<<b>>)}
    \cup (IF IsDict(b) \/ IsList(b) THEN {JsonStr(b)} ELSE {})

ToolCallShapes ==
    {<<"toolCalls", "id", "function">>, <<"toolCalls", "toolCallId", "arguments">>,
     <<"tool_calls", "id", "arguments">>, <<"toolCallList", "none", "function">>,
     <<"toolCallList", "id", "function">>}

ToolCallWrappers(b) ==
    {Dict(<<KV(s[1], List(<<ToolCallEntry(s[2], CallId, s[3], b)>>))>>) : s \in ToolCallShapes}

FunctionWrappers(b) ==
    {Dict(<<KV("id", CallId), KV("function", Dict(<<KV("arguments", b)>>))>>),
     Dict(<<KV("function", Dict(<<KV("arguments", b)>>))>>)}

\* Keys added to a dict that lacks them; front says where.
ExtraKeys ==
    {[k |-> "toolCallId", v |-> Str("call_9"), front |-> TRUE],
     [k |-> "tool_call_id", v |-> Str("call_9"), front |-> FALSE],
     [k |-> "to", v |-> Attacker, front |-> FALSE],
     [k |-> "toolCalls",
      v |-> List(<<ToolCallEntry("id", DecoyId, "function", DecoyArgs)>>), front |-> TRUE],
     [k |-> "function", v |-> Dict(<<KV("arguments", Dict(<< >>))>>), front |-> FALSE],
     [k |-> "note", v |-> DecoyArgs, front |-> TRUE],
     [k |-> "note", v |-> DecoyArgs, front |-> FALSE]}

KeyAdditions(b) ==
    IF IsDict(b)
    THEN {Dict(IF x.front THEN <<KV(x.k, x.v)>> \o b.kv ELSE Append(b.kv, KV(x.k, x.v))) :
            x \in {y \in ExtraKeys : ~HasKey(b, y.k)}}
    ELSE {}

\* Tool-call lists in which the arguments compete with another candidate.
CompetingWrappers(b) ==
    {Dict(<<KV("toolCalls", List(<<ToolCallEntry("id", DecoyId, "function", Str("n/a")),
                                   ToolCallEntry("id", CallId, "function", b)>>))>>),
     Dict(<<KV("toolCalls", List(<<ToolCallEntry("id", DecoyId, "function", DecoyArgs),
                                   ToolCallEntry("id", CallId, "function", b)>>))>>),
     Dict(<<KV("toolCalls",
               List(<<Dict(<<KV("id", CallId),
                             KV("arguments", DecoyArgs),
                             KV("function", Dict(<<KV("arguments", b)>>))>>)>>))>>),
     Dict(<<KV("toolCalls",
               List(<<Dict(<<KV("id", CallId),
                             KV("function", Dict(<<KV("arguments", DecoyArgs)>>)),
                             KV("arguments", b)>>)>>))>>)}

(***************************************************************************)
(* The webhook: building a body, the debug echo, the structured-request    *)
(* handler.                                                                *)
(***************************************************************************)
CanWrap(deep) ==
    /\ vpc = "build"
    /\ body # Unparseable
    /\ IF deep THEN wraps < MaxWraps ELSE wraps = 0

Rewrap(b) ==
    /\ body' = b
    /\ wraps' = wraps + 1
    /\ UNCHANGED <<env, vpc, tool_call_id, payload, calls, sendInvoked, sendResult,
                   providerCalls, providerOutcome, resp, contactVars>>

WrapPlain(deep) == CanWrap(deep) /\ \E b \in PlainWrappers(body) : Rewrap(b)
WrapToolCalls(deep) == CanWrap(deep) /\ \E b \in ToolCallWrappers(body) : Rewrap(b)
WrapFunction(deep) == CanWrap(deep) /\ \E b \in FunctionWrappers(body) : Rewrap(b)
AddKey(deep) == CanWrap(deep) /\ \E b \in KeyAdditions(body) : Rewrap(b)
WrapCompeting(deep) == CanWrap(deep) /\ \E b \in CompetingWrappers(body) : Rewrap(b)

\* server.py:276-279
vapi_debug_echo ==
    /\ vpc = "build"
    /\ body # Unparseable
    /\ \E x \in {_extract_toolcall_and_args(body)} :
         /\ tool_call_id' = x.id
         /\ payload' = x.args
         /\ calls' = x.n
    /\ vpc' = "echoed"
    /\ UNCHANGED <<env, body, wraps, sendInvoked, sendResult, providerCalls,
                   providerOutcome, resp, contactVars>>

\* server.py:285-323
vapi_send_structured_email ==
    /\ vpc = "build"
    /\ \E outcome \in ProviderOutcomes :
         \E h \in {Handle(body, env, outcome)} :
         /\ tool_call_id' = h.tool_call_id
         /\ payload' = h.payload
         /\ calls' = h.calls
         /\ sendInvoked' = h.sendInvoked
         /\ sendResult' = h.sendResult
         /\ providerCalls' = h.providerCalls
         /\ providerOutcome' = IF h.providerCalls = << >> THEN "uncalled" ELSE outcome
         /\ resp' = h.resp
    /\ vpc' = "done"
    /\ UNCHANGED <<env, body, wraps, contactVars>>

(***************************************************************************)
(* The environment.                                                        *)
(***************************************************************************)
Envs ==
    [SENDER_EMAIL : {None, Str("noreply@aspire.test")},
     RECIPIENT_EMAIL : {None, Str("office@aspire.test")},
     COUNCIL_INBOX_EMAIL : {None, Str(""), Str("council@aspire.test")},
     BREVO_API_KEY : {None, Str("xkeysib")},
     MONGO_URL : {None}]

NewRequest ==
    [pc |-> "new", input |-> None, obj |-> None, response |-> NoResponse,
     tasks |-> 0, sent |-> << >>, log |-> << >>]

\* server.py:28-29: both globals start as None; no request has arrived.
ContactIdle ==
    /\ phase = "starting"
    /\ mongo_client = "None"
    /\ mongo_db = "None"
    /\ pingOk = FALSE
    /\ store = {}
    /\ nextId = 1
    /\ reqs = [r \in 1..NumRequests |-> NewRequest]

VapiIdle ==
    /\ wraps = 0
    /\ vpc = "build"
    /\ tool_call_id = None
    /\ payload = Dict(<< >>)
    /\ calls = 0
    /\ sendInvoked = 0
    /\ sendResult = "none"
    /\ providerCalls = << >>
    /\ providerOutcome = "uncalled"
    /\ resp = NoResponse

FullEnv ==
    [SENDER_EMAIL |-> Str("noreply@aspire.test"),
     RECIPIENT_EMAIL |-> Str("office@aspire.test"),
     COUNCIL_INBOX_EMAIL |-> Str("council@aspire.test"),
     BREVO_API_KEY |-> Str("xkeysib"),
     MONGO_URL |-> None]

\* The normalizer alone, through the debug echo, on deeply wrapped bodies.
InitEcho == env = FullEnv /\ body \in EchoLeaves /\ VapiIdle /\ ContactIdle

NextEcho ==
    \/ WrapPlain(TRUE)
    \/ WrapToolCalls(TRUE)
    \/ WrapFunction(TRUE)
    \/ AddKey(TRUE)
    \/ WrapCompeting(TRUE)
    \/ vapi_debug_echo

SpecEcho == InitEcho /\ [][NextEcho]_vars

\* The structured-request handler under every environment, on every
\* arguments dict, bare or in one wrapper.
InitVapi ==
    /\ env \in Envs
    /\ body \in ArgsLeaves \cup EmptyLeaves
    /\ VapiIdle
    /\ ContactIdle

NextVapi ==
    \/ WrapPlain(FALSE)
    \/ WrapToolCalls(FALSE)
    \/ WrapFunction(FALSE)
    \/ AddKey(FALSE)
    \/ WrapCompeting(FALSE)
    \/ vapi_send_structured_email

SpecVapi == InitVapi /\ [][NextVapi]_vars

(***************************************************************************)
(* The contact flow: startup, the handler, the background e-mail,          *)
(* shutdown.                                                               *)
(***************************************************************************)
MongoOutcomes == {"construct_raises", "ping_raises", "ok"}

\* Faulty variant: a failed ping leaves the client and the handle set.
init_mongo_keepHandle(e, outcome) ==
    IF ~Truthy(e.MONGO_URL)
    THEN [client |-> "None", db |-> "None"]
    ELSE IF outcome = "construct_raises"
    THEN [client |-> "None", db |-> "None"]
    ELSE [client |-> "client", db |-> "db"]

\* server.py:32-49: the globals init_mongo leaves behind.
init_mongo(e, outcome) ==
    IF ~Truthy(e.MONGO_URL)
    THEN [client |-> "None", db |-> "None"]
    ELSE IF outcome = "ok"
    THEN [client |-> "client", db |-> "db"]
    ELSE [client |-> "None", db |-> "None"]

\* server.py:84-87
on_startup ==
    /\ phase = "starting"
    /\ \E outcome \in MongoOutcomes :
         /\ mongo_client' = init_mongo(env, outcome).client
         /\ mongo_db' = init_mongo(env, outcome).db
         /\ pingOk' = (Truthy(env.MONGO_URL) /\ outcome = "ok")
    /\ phase' = "serving"
    /\ UNCHANGED <<env, vapiVars, store, nextId, reqs>>

InFlight(r) == reqs[r].pc \in {"inserting", "scheduled"}

\* server.py:90-98; the server stops once no request is in flight.
shutdown_db_client ==
    /\ phase = "serving"
    /\ \A r \in 1..NumRequests : ~InFlight(r)
    /\ mongo_client' = "None"
    /\ phase' = "stopped"
    /\ UNCHANGED <<env, vapiVars, mongo_db, pingOk, store, nextId, reqs>>

ValidEmails == {"ann@example.test"}

\* What the form posts: the fields of ContactSubmissionCreate.
ContactInputs ==
    [name : {"Ann"}, email : {"ann@example.test"}, phone : {None, Str("0400")},
     org : {None, Str("Acme")}, message : {"Hello"}]
    \cup {[name |-> "Ann", email |-> "not-an-email", phone |-> None, org |-> None,
           message |-> "Hello"]}

\* server.py:70-75: the framework validates the input before the handler.
Validates(input) == input.email \in ValidEmails

\* server.py:59-67, 111
ContactSubmission(input, id) ==
    [id |-> id, name |-> input.name, email |-> input.email, phone |-> input.phone,
     org |-> input.org, message |-> input.message, status |-> "new"]

\* server.py:136-140
ContactResponse(obj) ==
    [status |-> "success",
     message |-> "Thank you for contacting us. We'll get back to you within 24 hours.",
     id |-> obj.id]

\* server.py:123-134: _safe_send closes over the request's own contact_obj.
TaskObject(r) == reqs[r].obj

\* server.py:125-130 and emails.py:18-35: the e-mail of a submission.
ContactEmail(obj, e) ==
    [sender |-> e.SENDER_EMAIL,
     to |-> << e.RECIPIENT_EMAIL >>,
     subject |-> "New Contact Form Submission",
     name |-> obj.name,
     email |-> obj.email,
     phone |-> Or(obj.phone, Str("")),
     message |-> IF Truthy(obj.org)
                 THEN <<"Organisation: ", obj.org.s, "\n\n", obj.message>>
                 ELSE <<obj.message>>]

\* Faulty variant: the e-mail task is added twice.
AfterPersist_twice(q, events) ==
    [q EXCEPT !.pc = "scheduled", !.tasks = q.tasks + 2,
              !.response = ContactResponse(q.obj),
              !.log = q.log \o events \o <<"task_scheduled", "response">>]

\* server.py:134-140: once persistence is over, schedule the task and answer.
AfterPersist(q, events) ==
    [q EXCEPT !.pc = "scheduled", !.tasks = q.tasks + 1,
              !.response = ContactResponse(q.obj),
              !.log = q.log \o events \o <<"task_scheduled", "response">>]

\* server.py:115
ShouldInsert(db) == db # "None"

\* server.py:109-120: a request arrives.  Invalid input never reaches the
\* handler; valid input builds the submission and either starts the insert
\* (the handler then awaits it) or skips it and runs to the end.
create_contact_submission(r) ==
    /\ phase = "serving"
    /\ reqs[r].pc = "new"
    /\ \E input \in ContactInputs :
         IF ~Validates(input)
         THEN /\ reqs' = [reqs EXCEPT ![r] = [@ EXCEPT !.pc = "rejected", !.input = input,
                                                        !.response = [http |-> 422]]]
              /\ UNCHANGED nextId
         ELSE LET q == [reqs[r] EXCEPT !.input = input,
                                       !.obj = ContactSubmission(input, nextId)]
              IN  /\ nextId' = nextId + 1
                  /\ reqs' = [reqs EXCEPT ![r] =
                                IF ShouldInsert(mongo_db)
                                THEN [q EXCEPT !.pc = "inserting",
                                               !.log = <<"insert_started">>]
                                ELSE AfterPersist(q, <<"insert_skipped">>)]
    /\ UNCHANGED <<env, vapiVars, phase, mongo_client, mongo_db, pingOk, store>>

\* Faulty variant: a failed insert is not caught and fails the request.
InsertFailed_propagates(q) ==
    [q EXCEPT !.pc = "done", !.response = [http |-> 500],
              !.log = q.log \o <<"insert_failed", "response">>]

\* server.py:119-120: a failed insert is logged and the handler goes on.
InsertFailed(q) == AfterPersist(q, <<"insert_failed">>)

\* server.py:116-140: the awaited insert_one returns or raises, and the
\* handler runs to its end.
insert_completes(r) ==
    /\ reqs[r].pc = "inserting"
    /\ \/ /\ store' = store \cup {reqs[r].obj}
          /\ reqs' = [reqs EXCEPT ![r] = AfterPersist(@, <<"insert_ok">>)]
       \/ /\ store' = store
          /\ reqs' = [reqs EXCEPT ![r] = InsertFailed(@)]
    /\ UNCHANGED <<env, vapiVars, phase, mongo_client, mongo_db, pingOk, nextId>>

\* One queued task has run: the request is over when none is left.
TaskRan(q, mail, events) ==
    [q EXCEPT !.pc = IF q.tasks > 1 THEN "scheduled" ELSE "done",
              !.tasks = q.tasks - 1,
              !.sent = Append(q.sent, mail),
              !.log = q.log \o <<"email_attempt">> \o events]

\* server.py:131-132: a failed send is logged and dropped.
SendFailed(q, mail) == TaskRan(q, mail, <<"email_failed">>)

\* server.py:123-134 and emails.py:37-40: a scheduled task runs after the
\* response; the provider accepts the e-mail or the call raises.
_safe_send(r) ==
    /\ reqs[r].pc = "scheduled"
    /\ reqs[r].tasks > 0
    /\ \E mail \in {ContactEmail(TaskObject(r), env)} :
         \/ reqs' = [reqs EXCEPT ![r] = TaskRan(@, mail, <<"email_ok">>)]
         \/ reqs' = [reqs EXCEPT ![r] = SendFailed(@, mail)]
    /\ UNCHANGED <<env, vapiVars, phase, mongo_client, mongo_db, pingOk, store, nextId>>

ContactEnvs == {[FullEnv EXCEPT !.MONGO_URL = u] : u \in {None, Str(""), Str("mongodb://db")}}

InitContact ==
    /\ env \in ContactEnvs
    /\ body = Dict(<< >>)
    /\ VapiIdle
    /\ ContactIdle

NextContact ==
    \/ on_startup
    \/ \E r \in 1..NumRequests :
         \/ create_contact_submission(r)
         \/ insert_completes(r)
         \/ _safe_send(r)
    \/ shutdown_db_client

SpecContact == InitContact /\ [][NextContact]_vars

(***************************************************************************)
(* Vocabulary of the properties.  These definitions restate what the       *)
(* claims talk about without using the normalizer's own helpers.           *)
(***************************************************************************)
SevenKeys ==
    {"to", "subject", "request_type", "resident_name", "resident_phone", "address",
     "details"}

SixRequired ==
    {"subject", "request_type", "resident_name", "resident_phone", "address", "details"}

Keys(d) == {d.kv[i].k : i \in 1..Len(d.kv)}

\* The value a JSON-encoded string stands for; any other value is itself.
Decoded(v) == IF v.t = "jstr" THEN v.d ELSE v

RECURSIVE AllDicts(_)
\* Every dict nested in v: under dict values, list elements and JSON-encoded
\* strings, at any depth.
AllDicts(v0) ==
    LET v == Decoded(v0) IN
    IF IsDict(v)
    THEN {v} \cup UNION {AllDicts(v.kv[i].v) : i \in 1..Len(v.kv)}
    ELSE IF IsList(v)
    THEN UNION {AllDicts(v.xs[i]) : i \in 1..Len(v.xs)}
    ELSE {}

\* The dicts that hold the structured-request fields.
FieldDicts(v) == {d \in AllDicts(v) : SixRequired \subseteq Keys(d)}

\* The dicts that could be taken for the arguments: those with one of the
\* seven keys, and those that are the value of an "arguments" key.
Candidates(v) ==
    {d \in AllDicts(v) : Keys(d) \cap SevenKeys # {}}
    \cup {Decoded(Get(x, "arguments")) :
            x \in {y \in AllDicts(v) : HasKey(y, "arguments")
                                       /\ IsDict(Decoded(Get(y, "arguments")))}}

RECURSIVE Nodes(_)
RECURSIVE NodesOf(_, _)
\* The number of values in v: v itself and everything nested in it.
Nodes(v0) ==
    LET v == Decoded(v0) IN
    IF IsDict(v) THEN 1 + NodesOf([i \in 1..Len(v.kv) |-> v.kv[i].v], 1)
    ELSE IF IsList(v) THEN 1 + NodesOf(v.xs, 1)
    ELSE 1
NodesOf(xs, i) == IF i > Len(xs) THEN 0 ELSE Nodes(xs[i]) + NodesOf(xs, i + 1)

ToChoices == {"absent", "attacker@evil.test", "someone@else.test"}

WithTo(d, c) == IF c = "absent" THEN DelKey(d, "to") ELSE SetKey(d, "to", Str(c))

RECURSIVE ToVariants(_)
\* The bodies that differ from v only in the value or presence of the "to"
\* field of one dict nested in it.
ToVariants(v) ==
    IF IsDict(v)
    THEN {WithTo(v, c) : c \in ToChoices}
         \cup UNION {{Dict([v.kv EXCEPT ![i] = KV(v.kv[i].k, w)]) : w \in ToVariants(v.kv[i].v)} :
                       i \in 1..Len(v.kv)}
    ELSE IF IsList(v)
    THEN UNION {{List([v.xs EXCEPT ![i] = w]) : w \in ToVariants(v.xs[i])} :
                  i \in 1..Len(v.xs)}
    ELSE IF v.t = "jstr"
    THEN {JsonStr(w) : w \in ToVariants(v.d)}
    ELSE {}

\* The inbox the environment names: COUNCIL_INBOX_EMAIL when set, otherwise
\* RECIPIENT_EMAIL.  A variable is set when it has a non-empty value.
EnvInbox ==
    IF Truthy(env.COUNCIL_INBOX_EMAIL) THEN env.COUNCIL_INBOX_EMAIL
    ELSE env.RECIPIENT_EMAIL

Recipients(sent) == {sent[i].to : i \in 1..Len(sent)}

Entry == resp.results[1]

(***************************************************************************)
(* C1.  The recipient handed to the provider never depends on the request  *)
(* body: whenever the handler hands an e-mail to the provider, its only    *)
(* recipient is the environment's inbox, and every body that differs from  *)
(* the request's only in a "to" field gives, under the same environment    *)
(* and whatever the provider does, no other recipient.                     *)
(***************************************************************************)
C1_RecipientIgnoresBody ==
    vpc = "done" =>
        /\ Recipients(providerCalls) \subseteq {<<EnvInbox>>}
        /\ providerCalls # << >> => Truthy(EnvInbox)
        /\ \A b \in ToVariants(body) : \A o \in ProviderOutcomes :
             Recipients(Handle(b, env, o).providerCalls) \subseteq {<<EnvInbox>>}

C1_Witness ==
    /\ vpc = "done"
    /\ providerCalls # << >>
    /\ Get(payload, "to") = Attacker
    /\ ~Truthy(env.COUNCIL_INBOX_EMAIL)
    /\ providerCalls[1].to = <<env.RECIPIENT_EMAIL>>
    /\ \E b \in ToVariants(body) :
         /\ Get(_extract_toolcall_and_args(b).args, "to") = Str("someone@else.test")
         /\ Handle(b, env, providerOutcome).providerCalls # << >>

(***************************************************************************)
(* C3.  The required-field check precedes the send: if one of the six      *)
(* required fields is absent or falsy in the extracted arguments, the send *)
(* is not attempted and the response is an error entry naming exactly the  *)
(* missing fields; the send is attempted only when all six are truthy.     *)
(***************************************************************************)
C3_CheckBeforeSend ==
    vpc = "done" /\ body # Unparseable =>
        LET args == _extract_toolcall_and_args(body).args
            miss == {k \in SixRequired : ~HasKey(args, k) \/ ~Truthy(Get(args, k))}
        IN  /\ miss # {} =>
                /\ sendInvoked = 0
                /\ providerCalls = << >>
                /\ DOMAIN Entry = {"toolCallId", "error"}
                /\ Entry.error.text = "Missing required fields: "
                /\ {Entry.error.parts[i] : i \in 1..Len(Entry.error.parts)} = miss
                /\ Len(Entry.error.parts) = Cardinality(miss)
            /\ sendInvoked > 0 <=> miss = {}

C3_Witness ==
    /\ vpc = "done"
    /\ sendInvoked = 0
    /\ HasKey(payload, "address")
    /\ "error" \in DOMAIN Entry
    /\ Entry.error.parts = <<"subject", "address">>

(***************************************************************************)
(* C4.  Every outcome of the handler is the platform envelope: a results   *)
(* array with exactly one entry, which has a non-empty toolCallId and      *)
(* exactly one of result and error; it carries result if and only if the   *)
(* send was invoked and returned without raising.                          *)
(***************************************************************************)
C4_Envelope ==
    vpc = "done" =>
        /\ DOMAIN resp = {"results"}
        /\ Len(resp.results) = 1
        /\ DOMAIN Entry \in {{"toolCallId", "result"}, {"toolCallId", "error"}}
        /\ Truthy(Entry.toolCallId)
        /\ "result" \in DOMAIN Entry <=> (sendInvoked = 1 /\ sendResult = "returned")

C4_Witness ==
    /\ vpc = "done"
    /\ sendResult = "Exception"
    /\ DOMAIN Entry = {"toolCallId", "error"}
    /\ Entry.toolCallId = Str("unknown")

(***************************************************************************)
(* C9.  The send checks its configuration before contacting the provider:  *)
(* with SENDER_EMAIL unset, or both inbox variables unset, or              *)
(* BREVO_API_KEY unset, it raises EmailDeliveryError without a provider    *)
(* call and the response is an error entry beginning "Email delivery       *)
(* failed" with the request's toolCallId; the provider is called only      *)
(* when all three are configured.                                          *)
(***************************************************************************)
Configured ==
    /\ Truthy(env.SENDER_EMAIL)
    /\ Truthy(env.COUNCIL_INBOX_EMAIL) \/ Truthy(env.RECIPIENT_EMAIL)
    /\ Truthy(env.BREVO_API_KEY)

FirstEntryIds(d) ==
    UNION {LET tc == Get(d, k) IN
           IF IsList(tc) /\ Len(tc.xs) > 0 /\ IsDict(tc.xs[1])
           THEN {Get(tc.xs[1], "id"), Get(tc.xs[1], "toolCallId")}
           ELSE {} : k \in {"toolCalls", "tool_calls", "toolCallList"}}

CarriedIds(b) ==
    {id \in UNION {{Get(d, "toolCallId"), Get(d, "tool_call_id")} \cup FirstEntryIds(d) :
                     d \in AllDicts(b)} : Truthy(id)}

C7_ToolCallIdEchoed ==
    vpc = "done" /\ body # Unparseable =>
        /\ CarriedIds(body) # {} => Entry.toolCallId \in CarriedIds(body)
        /\ Entry.toolCallId = Str("unknown") => CarriedIds(body) = {}

(***************************************************************************)
(* C5.  The normalizer locates the structured-request fields in a wrapped  *)
(* body: when a dict holding the six required fields is nested at any      *)
(* depth under dict values, list elements, JSON-encoded strings or a       *)
(* tool-call entry's arguments, and no other dict of the body has one of   *)
(* the seven keys or is the value of an "arguments" key, the returned      *)
(* arguments dict is that dict.                                            *)
(***************************************************************************)
C5_FindsOnlyCandidate ==
    vpc = "echoed" =>
        \A d \in FieldDicts(body) : Candidates(body) = {d} => payload = d

C5_Witness ==
    /\ vpc = "echoed"
    /\ wraps = MaxWraps
    /\ body.t = "jstr"
    /\ \E d \in FieldDicts(body) :
         /\ Candidates(body) = {d}
         /\ payload = d
         /\ d # Decoded(body)
         /\ \E x \in AllDicts(body) : HasKey(x, "toolCallList")

\* C5 as stated: whatever else the body holds, the returned arguments dict is
\* the dict that holds the structured-request fields.
C5_FindsAnyNesting ==
    vpc = "echoed" => \A d \in FieldDicts(body) : payload = d

(***************************************************************************)
(* C10.  The normalizer terminates, making at most one invocation per      *)
(* value of the body, and resolves competing shapes in a fixed order: a    *)
(* dict with one of the seven keys is itself the arguments, whatever else  *)
(* it holds; otherwise the first entry of the tool-call list gives them,   *)
(* its function.arguments before its own arguments; otherwise the dict's   *)
(* function.arguments; otherwise the first non-empty result over the       *)
(* values in order; and the result is an empty dict when nothing is found. *)
(***************************************************************************)
\* The value under key k of d when it decodes to a dict.
ArgsAt(d, k) ==
    IF IsDict(d) /\ HasKey(d, k) /\ IsDict(Decoded(Get(d, k)))
    THEN <<Decoded(Get(d, k))>>
    ELSE << >>

\* The first entry of the dict's tool-call list.
FirstToolCall(d) ==
    LET tc == IF Truthy(Get(d, "toolCalls")) THEN Get(d, "toolCalls")
              ELSE IF Truthy(Get(d, "tool_calls")) THEN Get(d, "tool_calls")
              ELSE Get(d, "toolCallList")
    IN  IF IsList(tc) /\ Len(tc.xs) > 0 /\ IsDict(tc.xs[1]) THEN tc.xs[1] ELSE None

\* The first non-empty arguments the normalizer returns over xs, in order.
FirstNonEmpty(xs) ==
    LET hits == {i \in 1..Len(xs) : Truthy(_extract_toolcall_and_args(xs[i]).args)} IN
    IF hits = {} THEN Dict(<< >>)
    ELSE _extract_toolcall_and_args(xs[CHOOSE i \in hits : \A j \in hits : i <= j]).args

Expected(raw) ==
    IF IsDict(raw)
    THEN LET first == FirstToolCall(raw)
             fn == IF IsDict(raw) THEN Get(raw, "function") ELSE None
         IN  IF Keys(raw) \cap SevenKeys # {} THEN raw
             ELSE IF IsDict(first) /\ ArgsAt(Get(first, "function"), "arguments") # << >>
             THEN ArgsAt(Get(first, "function"), "arguments")[1]
             ELSE IF IsDict(first) /\ ArgsAt(first, "arguments") # << >>
             THEN ArgsAt(first, "arguments")[1]
             ELSE IF ArgsAt(fn, "arguments") # << >>
             THEN ArgsAt(fn, "arguments")[1]
             ELSE FirstNonEmpty([i \in 1..Len(raw.kv) |-> raw.kv[i].v])
    ELSE IF IsList(raw) THEN FirstNonEmpty(raw.xs)
    ELSE Dict(<< >>)

C10_TerminatesWithPrecedence ==
    vpc = "echoed" =>
        /\ calls >= 1
        /\ calls <= Nodes(body)
        /\ IsDict(payload)
        /\ payload = Expected(Decoded(body))

C10_Witness ==
    /\ vpc = "echoed"
    /\ IsDict(body)
    /\ Keys(body) \cap SevenKeys = {}
    /\ IsDict(FirstToolCall(body))
    /\ ArgsAt(Get(FirstToolCall(body), "function"), "arguments") = <<FullArgs>>
    /\ ArgsAt(FirstToolCall(body), "arguments") = <<DecoyArgs>>
    /\ payload = FullArgs
    /\ calls = 1

(***************************************************************************)
(* C2.  A contact request whose input passed validation never ends in an   *)
(* error response: whether the store is disabled, the insert succeeds or   *)
(* raises, and whether the background send succeeds or raises, the         *)
(* response is the fixed success response with the submission's id.        *)
(***************************************************************************)
Events(r) == {reqs[r].log[i] : i \in 1..Len(reqs[r].log)}
Count(r, ev) == Cardinality({i \in 1..Len(reqs[r].log) : reqs[r].log[i] = ev})
Index(r, ev) == CHOOSE i \in 1..Len(reqs[r].log) : reqs[r].log[i] = ev
Accepted(r) == reqs[r].pc # "new" /\ reqs[r].input.email \in ValidEmails

C2_AlwaysSuccess ==
    \A r \in 1..NumRequests :
        Accepted(r) =>
            /\ reqs[r].pc \in {"inserting", "scheduled", "done"}
            /\ reqs[r].pc = "inserting" => reqs[r].response = NoResponse
            /\ reqs[r].pc \in {"scheduled", "done"} =>
                 /\ DOMAIN reqs[r].response = {"status", "message", "id"}
                 /\ reqs[r].response.status = "success"
                 /\ reqs[r].response.id = reqs[r].obj.id

C2_Witness ==
    \E r \in 1..NumRequests :
        /\ reqs[r].pc = "done"
        /\ {"insert_failed", "email_failed"} \subseteq Events(r)
        /\ reqs[r].response.status = "success"

(***************************************************************************)
(* C6.  The document store is no dependency of startup or of serving:      *)
(* startup always completes, the store handle is set after startup only if *)
(* the ping succeeded, and a contact request attempts an insert only when  *)
(* the connection was established at startup and skips it otherwise.       *)
(***************************************************************************)
C6_StoreOptional ==
    /\ phase = "starting" => ENABLED on_startup
    /\ phase = "starting" => mongo_db = "None"
    /\ mongo_db # "None" => pingOk /\ Truthy(env.MONGO_URL)
    /\ \A r \in 1..NumRequests :
         /\ "insert_started" \in Events(r) => pingOk
         /\ "insert_skipped" \in Events(r) => ~pingOk
         /\ Accepted(r) => Count(r, "insert_started") + Count(r, "insert_skipped") = 1
    /\ \A doc \in store : pingOk

C6_Witness ==
    /\ phase = "serving"
    /\ Truthy(env.MONGO_URL)
    /\ ~pingOk
    /\ mongo_db = "None"
    /\ \E r \in 1..NumRequests : reqs[r].pc = "done" /\ "insert_skipped" \in Events(r)

(***************************************************************************)
(* C8.  Within one contact request the steps occur in a fixed order and at *)
(* most once each: persistence has finished (succeeded, failed or been     *)
(* skipped) before the e-mail task is scheduled, exactly one send attempt  *)
(* is made per accepted request, after the success response has been       *)
(* produced, a failed attempt is not retried, and under any interleaving   *)
(* of requests each e-mail carries its own submission's fields.            *)
(***************************************************************************)
PersistEvents == {"insert_ok", "insert_failed", "insert_skipped"}

C8_OrderedOnce ==
    \A r \in 1..NumRequests :
        LET q == reqs[r] IN
        /\ Count(r, "task_scheduled") <= 1
        /\ Count(r, "response") <= 1
        /\ Count(r, "email_attempt") <= 1
        /\ Len(q.sent) = Count(r, "email_attempt")
        /\ "task_scheduled" \in Events(r) =>
             /\ Cardinality({i \in 1..Len(q.log) : q.log[i] \in PersistEvents}) = 1
             /\ \E i \in 1..Len(q.log) :
                  q.log[i] \in PersistEvents /\ i < Index(r, "task_scheduled")
             /\ "insert_started" \in Events(r) =>
                  Events(r) \cap {"insert_ok", "insert_failed"} # {}
        /\ "email_attempt" \in Events(r) =>
             /\ "response" \in Events(r)
             /\ Index(r, "task_scheduled") < Index(r, "email_attempt")
             /\ Index(r, "response") < Index(r, "email_attempt")
             /\ q.response.status = "success"
        /\ "email_failed" \in Events(r) => q.pc = "done" /\ q.tasks = 0
        /\ (Accepted(r) /\ (q.pc = "done" \/ phase = "stopped")) =>
             Count(r, "email_attempt") = 1
        /\ \A i \in 1..Len(q.sent) :
             /\ q.sent[i].name = q.input.name
             /\ q.sent[i].email = q.input.email
             /\ q.sent[i].phone = (IF q.input.phone = None THEN Str("") ELSE q.input.phone)
             /\ q.sent[i].message[Len(q.sent[i].message)] = q.input.message
             /\ (q.input.org # None) =>
                  q.sent[i].message[1] = "Organisation: " /\ q.sent[i].message[2] = q.input.org.s
             /\ (q.input.org = None) => Len(q.sent[i].message) = 1

C8_Witness ==
    /\ reqs[1].pc = "done"
    /\ reqs[2].pc = "done"
    /\ reqs[2].obj.id < reqs[1].obj.id
    /\ reqs[1].input # reqs[2].input
    /\ "email_failed" \in Events(1)
    /\ "insert_ok" \in Events(1)
    /\ "insert_failed" \in Events(2)
    /\ reqs[1].sent[1].phone # reqs[2].sent[1].phone

====
